---- MODULE Spec2Model ----
(***************************************************************************)
(* Model of the rule-based validators VerifyThis.string / number / array   *)
(* and of the weighted-probability selector execProb with the random       *)
(* generators it draws from (src/verify_this.js).                          *)
(*                                                                         *)
(* A call of a validator is one action: it records the arguments and the   *)
(* outcome (normal completion or the exception thrown).  execProb is       *)
(* followed through its positions: field scan, weight sum, draw, walk.     *)
(***************************************************************************)
EXTENDS Integers, Sequences, FiniteSets

VARIABLES pc, call, result, checkPercent, num

vars == <<pc, call, result, checkPercent, num>>

(***************************************************************************)
(* Bounds of the explored inputs.                                          *)
(***************************************************************************)
MaxLen == 2          \* longest string / array passed to a validator
NumRange == 2        \* numbers passed to VerifyThis.number are -NumRange..NumRange
MaxEntries == 2      \* longest list passed to execProb

(***************************************************************************)
(* JavaScript values, as far as the validators look at them.               *)
(*   null / unset rule            Null                                     *)
(*   a number k in a rule         Some(k)                                  *)
(***************************************************************************)
Null == <<>>
Some(k) == <<k>>

\* JS truthiness of a rule that is null or a number: null and 0 are falsy.
Truthy(x) == x # Null /\ x[1] # 0

Alphabet == {"a", "b"}

RECURSIVE SeqsUpTo(_, _)
SeqsUpTo(S, n) ==
    IF n = 0 THEN {<<>>}
    ELSE LET shorter == SeqsUpTo(S, n - 1)
         IN  shorter \cup {Append(s, x) : s \in shorter, x \in S}

\* A value handed to VerifyThis.string: a primitive string, a String object
\* (new String(..), a StringFun instance) or something else (the number 1).
StrValues ==
    {[tag |-> t, chars |-> c] : t \in {"prim", "obj"}, c \in SeqsUpTo(Alphabet, MaxLen)}
    \cup {[tag |-> "other", chars |-> <<>>]}

OptCounts == {Null} \cup {Some(k) : k \in 0..(MaxLen + 1)}

StringRules ==
    [canEmpty : BOOLEAN, minChars : OptCounts, maxChars : OptCounts,
     alias : {"String", "Pattern"},
     allowedChars : SUBSET {<<"a">>, <<"b">>}]

\* A value handed to VerifyThis.number: a number or something else.
NumValues ==
    {[tag |-> "number", n |-> k] : k \in (0 - NumRange)..NumRange}
    \cup {[tag |-> "other", n |-> 0]}

OptNums == {Null} \cup {Some(k) : k \in (0 - NumRange)..NumRange}

NumberRules ==
    [min : OptNums, maxValue : OptNums, alias : {"Number", "Degree"},
     allowedNums : SUBSET {0, 1}, allowedNumsAlias : {"number"}]

\* Array elements: only `typeof element` is looked at.
Elements ==
    {[typeof |-> "number", v |-> "1"], [typeof |-> "string", v |-> "x"],
     [typeof |-> "undefined", v |-> "undefined"]}

ArrValues ==
    {[tag |-> "array", els |-> e] : e \in SeqsUpTo(Elements, MaxLen)}
    \cup {[tag |-> "other", els |-> <<>>]}

ArrayRules ==
    [canEmpty : BOOLEAN, minElements : OptCounts, maxElements : OptCounts,
     arrayOf : SUBSET {"number", "string"}]

(***************************************************************************)
(* Outcomes.  A throw carries the JS error class, the error kind of the    *)
(* throw site, the subject its message starts from (the alias, or the      *)
(* fixed text of the message) and the number interpolated in the message.  *)
(***************************************************************************)
NoResult == [status |-> "none", error |-> "", kind |-> "", subject |-> "",
             n |-> Null, value |-> ""]
Ok == [NoResult EXCEPT !.status = "ok"]
Throw(error, kind, subject, n) ==
    [NoResult EXCEPT !.status = "throw", !.error = error, !.kind = kind,
                     !.subject = subject, !.n = n]
Return(v) == [NoResult EXCEPT !.status = "return", !.value = v]

(***************************************************************************)
(* VerifyThis.string                                                       *)
(***************************************************************************)
\* typeof str === "string" || str instanceof String
IsTextual(str) == str.tag \in {"prim", "obj"}

\* !str : the empty primitive string is falsy, every object is truthy.
StrFalsy(str) == str.tag = "prim" /\ str.chars = <<>>

\* allowedChars.includes(str) compares with SameValueZero: a String object
\* is never equal to a primitive element of the array.
CharsInclude(allowedChars, str) == str.tag = "prim" /\ str.chars \in allowedChars

VerifyString(str, rules) ==
    IF ~IsTextual(str)
      THEN Throw("TypeError", "TypeMismatch", "Entered value is not a string", Null)
    ELSE IF ~rules.canEmpty /\ StrFalsy(str)
      THEN Throw("Error", "EmptyValue", rules.alias, Null)
    ELSE IF Truthy(rules.minChars) /\ Len(str.chars) < rules.minChars[1]
      THEN Throw("Error", "BelowMinimum", rules.alias, rules.minChars)
    ELSE IF Truthy(rules.maxChars) /\ Len(str.chars) > rules.maxChars[1]
      THEN Throw("Error", "AboveMaximum", rules.alias, rules.maxChars)
    ELSE IF rules.maxChars = Some(1) /\ ~CharsInclude(rules.allowedChars, str)
      THEN Throw("Error", "NotAllowed", "Entered character is not", Null)
    ELSE Ok

(***************************************************************************)
(* VerifyThis.number                                                       *)
(***************************************************************************)
\* The message of the min rule reads the identifier minValue, which is
\* declared nowhere: evaluating the template throws a ReferenceError
\* before the RangeError is constructed.
BelowMinThrow(rules) ==
    Throw("ReferenceError", "NotDefined", "minValue is not defined", Null)

VerifyNumber(n, rules) ==
    IF n.tag # "number"
      THEN Throw("TypeError", "TypeMismatch", "Entered value is not a number", Null)
    ELSE IF rules.allowedNums # {} /\ n.n \notin rules.allowedNums
      THEN Throw("Error", "NotAllowed", rules.allowedNumsAlias, Null)
    ELSE IF (Truthy(rules.min) \/ rules.min = Some(0)) /\ n.n < rules.min[1]
      THEN BelowMinThrow(rules)
    ELSE IF Truthy(rules.maxValue) /\ n.n > rules.maxValue[1]
      THEN Throw("RangeError", "AboveMaximum", rules.alias, rules.maxValue)
    ELSE Ok

(***************************************************************************)
(* VerifyThis.array                                                        *)
(***************************************************************************)
\* arr.findIndex(callback), tests[i] being what the callback answers on the
\* i-th element: the smallest 0-based index answered true, -1 when there is
\* none.  Scans left to right.
RECURSIVE FindIndexFrom(_, _)
FindIndexFrom(tests, i) ==
    IF i > Len(tests) THEN 0 - 1
    ELSE IF tests[i] THEN i - 1
    ELSE FindIndexFrom(tests, i + 1)

FindIndex(tests) == FindIndexFrom(tests, 1)

\* VerifyArray with the two length rules checked before the element types.
VerifyArray_CountFirst(arr, rules) ==
    IF arr.tag # "array"
      THEN Throw("Error", "TypeMismatch", "Entered value is not an array", Null)
    ELSE IF ~rules.canEmpty /\ Len(arr.els) < 1
      THEN Throw("Error", "EmptyValue", "Array is empty", Null)
    ELSE IF Truthy(rules.minElements) /\ Len(arr.els) < rules.minElements[1]
      THEN Throw("Error", "BelowMinimum", "Array has less than", rules.minElements)
    ELSE IF Truthy(rules.maxElements) /\ Len(arr.els) > rules.maxElements[1]
      THEN Throw("Error", "AboveMaximum", "Array has more than", rules.maxElements)
    ELSE LET notOfType == [i \in 1..Len(arr.els) |-> arr.els[i].typeof \notin rules.arrayOf]
             indexEl == IF rules.arrayOf # {} THEN FindIndex(notOfType) ELSE 0 - 1
         IN  IF rules.arrayOf # {} /\ indexEl >= 0
               THEN Throw("TypeError", "TypeMismatch", "Element in index", Some(indexEl))
             ELSE Ok

VerifyArray(arr, rules) ==
    IF arr.tag # "array"
      THEN Throw("Error", "TypeMismatch", "Entered value is not an array", Null)
    ELSE IF ~rules.canEmpty /\ Len(arr.els) < 1
      THEN Throw("Error", "EmptyValue", "Array is empty", Null)
    ELSE LET notOfType == [i \in 1..Len(arr.els) |-> arr.els[i].typeof \notin rules.arrayOf]
             indexEl == IF rules.arrayOf # {} THEN FindIndex(notOfType) ELSE 0 - 1
         IN  IF rules.arrayOf # {} /\ indexEl >= 0
               THEN Throw("TypeError", "TypeMismatch", "Element in index", Some(indexEl))
             ELSE IF Truthy(rules.minElements) /\ Len(arr.els) < rules.minElements[1]
               THEN Throw("Error", "BelowMinimum", "Array has less than", rules.minElements)
             ELSE IF Truthy(rules.maxElements) /\ Len(arr.els) > rules.maxElements[1]
               THEN Throw("Error", "AboveMaximum", "Array has more than", rules.maxElements)
             ELSE Ok

(***************************************************************************)
(* The calls.                                                              *)
(***************************************************************************)
NoCall == [fn |-> "none"]

Init ==
    /\ pc = "idle"
    /\ call = NoCall
    /\ result = NoResult
    /\ checkPercent = Null
    /\ num = Null

CallString ==
    /\ pc = "idle"
    /\ \E str \in StrValues, rules \in StringRules :
         /\ call' = [fn |-> "string", str |-> str, rules |-> rules]
         /\ result' = VerifyString(str, rules)
    /\ pc' = "done"
    /\ UNCHANGED <<checkPercent, num>>

CallNumber ==
    /\ pc = "idle"
    /\ \E n \in NumValues, rules \in NumberRules :
         /\ call' = [fn |-> "number", num |-> n, rules |-> rules]
         /\ result' = VerifyNumber(n, rules)
    /\ pc' = "done"
    /\ UNCHANGED <<checkPercent, num>>

CallArray ==
    /\ pc = "idle"
    /\ \E arr \in ArrValues, rules \in ArrayRules :
         /\ call' = [fn |-> "array", arr |-> arr, rules |-> rules]
         /\ result' = VerifyArray(arr, rules)
    /\ pc' = "done"
    /\ UNCHANGED <<checkPercent, num>>

(***************************************************************************)
(* Random.intBetween / Random.floatBetween                                 *)
(***************************************************************************)
\* The rules VerifyThis.number destructures when a field is not given.
DefaultNumberRules ==
    [min |-> Null, maxValue |-> Null, alias |-> "Number", allowedNums |-> {},
     allowedNumsAlias |-> "number"]

Number(k) == [tag |-> "number", n |-> k]

RECURSIVE Pow10(_)
Pow10(d) == IF d <= 0 THEN 1 ELSE 10 * Pow10(d - 1)

\* Math.floor(Math.random() * n) for Math.random() anywhere in [0, 1).
MathRandomFloor(n) == 0..(n - 1)

\* The exception intBetween(min, max) throws before drawing, NoResult if none.
IntBetweenThrow(min, max) ==
    LET v1 == VerifyNumber(Number(min), [DefaultNumberRules EXCEPT !.alias = "Minimun value"])
        v2 == VerifyNumber(Number(max), [DefaultNumberRules EXCEPT !.alias = "Maximun value"])
    IN  IF v1.status = "throw" THEN v1
        ELSE IF v2.status = "throw" THEN v2
        ELSE IF min = max
          THEN Throw("Error", "EqualBounds", "Minimun value is equals to maximun value", Null)
        ELSE IF min > max
          THEN Throw("RangeError", "MinAboveMax", "Minimum value is more than the maximum value", Null)
        ELSE NoResult

\* Math.floor(Math.random() * (max - min + 1)) + min, k the floored product.
IntBetween(min, max, k) == k + min

\* The exception floatBetween(min, max, decimals) throws, NoResult if none.
FloatBetweenThrow(min, max, decimals) ==
    LET v1 == VerifyNumber(Number(min), [DefaultNumberRules EXCEPT !.alias = "Minimum value"])
        v2 == VerifyNumber(Number(max), [DefaultNumberRules EXCEPT !.alias = "Maximum value"])
        v3 == VerifyNumber(Number(decimals),
                           [DefaultNumberRules EXCEPT !.alias = "Number of decimals",
                                                      !.min = Some(1)])
    IN  IF v1.status = "throw" THEN v1
        ELSE IF v2.status = "throw" THEN v2
        ELSE IF v3.status = "throw" THEN v3
        ELSE IF min = max
          THEN Throw("Error", "EqualBounds", "Minimun value is equals to maximun value", Null)
        ELSE IF min > max
          THEN Throw("RangeError", "MinAboveMax", "Minimum value is more than the maximum value", Null)
        ELSE IntBetweenThrow(min * Pow10(decimals), max * Pow10(decimals))

\* floatBetween without the division by 10^d.
FloatBetween_Unscaled(min, max, decimals, k) ==
    [n |-> IntBetween(min * Pow10(decimals), max * Pow10(decimals), k), den |-> 1]

\* Number((intBetween(min * 10^d, max * 10^d) / 10^d).toFixed(d)): the
\* fraction n / den with den = 10^d; toFixed(d) keeps all d decimals of it.
FloatBetween(min, max, decimals, k) ==
    [n |-> IntBetween(min * Pow10(decimals), max * Pow10(decimals), k),
     den |-> Pow10(decimals)]

\* The floored products the inner intBetween of floatBetween can see.
FloatBetweenDraws(min, max, decimals) ==
    MathRandomFloor(max * Pow10(decimals) - min * Pow10(decimals) + 1)

\* The comparison of the walk made strict: num < currentProb.
FloatLeq_Strict(r, c) == r.n < c * r.den

\* num <= currentProb, for a drawn fraction and a whole number.
FloatLeq(r, c) == r.n <= c * r.den

(***************************************************************************)
(* execProb                                                                *)
(***************************************************************************)
DefaultDecimals == 1     \* floatBetween(min, max, decimals = 1)
DrawMin == 0             \* Random.floatBetween(0, 100)
DrawMax == 100
MaxPercent == 100        \* checkPercent > 100

Items == {"A", "B"}
Weights == {0, 40, 60, 100, 150}

\* An element of the list: each of the own properties el and prob is there
\* (Some) or missing (Null).
Entries ==
    [el : {Null} \cup {Some(x) : x \in Items},
     prob : {Null} \cup {Some(w) : w \in Weights}]

EntryLists == SeqsUpTo(Entries, MaxEntries)

\* element.hasOwnProperty("el") === false
LacksEl(e) == e.el = Null
\* element.hasOwnProperty("prob") === false
LacksProb(e) == e.prob = Null

\* for (const {prob: percent} of arr) checkPercent += percent
RECURSIVE SumFrom(_, _, _)
SumFrom(arr, i, acc) ==
    IF i > Len(arr) THEN acc ELSE SumFrom(arr, i + 1, acc + arr[i].prob[1])

CheckPercent(arr) == SumFrom(arr, 1, 0)

\* The second loop: the item of the first element at which the running
\* total has reached the draw; falling off the end returns undefined.
RECURSIVE WalkFrom(_, _, _, _)
WalkFrom(arr, i, currentProb, r) ==
    IF i > Len(arr) THEN Return("undefined")
    ELSE LET reached == currentProb + arr[i].prob[1]
         IN  IF FloatLeq(r, reached) THEN Return(arr[i].el[1])
             ELSE WalkFrom(arr, i + 1, reached, r)

\* The walk comparing the draw with the running total before the weight of
\* the current element is added to it.
RECURSIVE WalkFrom_CompareFirst(_, _, _, _)
WalkFrom_CompareFirst(arr, i, currentProb, r) ==
    IF i > Len(arr) THEN Return("undefined")
    ELSE IF FloatLeq(r, currentProb) THEN Return(arr[i].el[1])
    ELSE WalkFrom_CompareFirst(arr, i + 1, currentProb + arr[i].prob[1], r)

Walk_CompareFirst(arr, r) == WalkFrom_CompareFirst(arr, 1, 0, r)

Walk(arr, r) == WalkFrom(arr, 1, 0, r)

\* The field scan with the message for el naming the index found for prob.
FieldsThrow_WrongIndex(arr) ==
    LET indexEl == FindIndex([i \in 1..Len(arr) |-> LacksEl(arr[i])])
        indexProb == FindIndex([i \in 1..Len(arr) |-> LacksProb(arr[i])])
    IN  IF indexEl >= 0
          THEN Throw("ReferenceError", "MissingField", "el", Some(indexProb))
        ELSE IF indexProb >= 0
          THEN Throw("ReferenceError", "MissingField", "prob", Some(indexProb))
        ELSE NoResult

\* The two findIndex scans and the throws that follow them.
FieldsThrow(arr) ==
    LET indexEl == FindIndex([i \in 1..Len(arr) |-> LacksEl(arr[i])])
        indexProb == FindIndex([i \in 1..Len(arr) |-> LacksProb(arr[i])])
    IN  IF indexEl >= 0
          THEN Throw("ReferenceError", "MissingField", "el", Some(indexEl))
        ELSE IF indexProb >= 0
          THEN Throw("ReferenceError", "MissingField", "prob", Some(indexProb))
        ELSE NoResult

\* The check of the sum rejecting a sum of exactly 100 too.
SumThrow_AtLeast(sum) ==
    IF sum >= MaxPercent
      THEN Throw("Error", "InvalidConfiguration",
                 "The sum of the probabilities is more than 100", Null)
    ELSE NoResult

\* The check of the sum.
SumThrow(sum) ==
    IF sum > MaxPercent
      THEN Throw("Error", "InvalidConfiguration",
                 "The sum of the probabilities is more than 100", Null)
    ELSE NoResult

CallExecProb ==
    /\ pc = "idle"
    /\ \E arr \in EntryLists : call' = [fn |-> "execProb", arr |-> arr]
    /\ pc' = "fields"
    /\ UNCHANGED <<result, checkPercent, num>>

ExecProbFields ==
    /\ pc = "fields"
    /\ LET t == FieldsThrow(call.arr)
       IN  IF t.status = "throw"
             THEN result' = t /\ pc' = "done"
             ELSE result' = result /\ pc' = "sum"
    /\ UNCHANGED <<call, checkPercent, num>>

ExecProbSum ==
    /\ pc = "sum"
    /\ checkPercent' = Some(CheckPercent(call.arr))
    /\ LET t == SumThrow(CheckPercent(call.arr))
       IN  IF t.status = "throw"
             THEN result' = t /\ pc' = "done"
             ELSE result' = result /\ pc' = "draw"
    /\ UNCHANGED <<call, num>>

ExecProbDraw ==
    /\ pc = "draw"
    /\ LET t == FloatBetweenThrow(DrawMin, DrawMax, DefaultDecimals)
       IN  IF t.status = "throw"
             THEN result' = t /\ pc' = "done" /\ num' = num
             ELSE /\ \E k \in FloatBetweenDraws(DrawMin, DrawMax, DefaultDecimals) :
                       num' = Some(FloatBetween(DrawMin, DrawMax, DefaultDecimals, k))
                  /\ result' = result
                  /\ pc' = "walk"
    /\ UNCHANGED <<call, checkPercent>>

ExecProbWalk ==
    /\ pc = "walk"
    /\ result' = Walk(call.arr, num[1])
    /\ pc' = "done"
    /\ UNCHANGED <<call, checkPercent, num>>

\* The call has completed or thrown; the caller may make the next call.
Finish ==
    /\ pc = "done"
    /\ pc' = "idle"
    /\ call' = NoCall
    /\ result' = NoResult
    /\ checkPercent' = Null
    /\ num' = Null

Next ==
    \/ CallString \/ CallNumber \/ CallArray
    \/ CallExecProb \/ ExecProbFields \/ ExecProbSum \/ ExecProbDraw \/ ExecProbWalk
    \/ Finish

Spec == Init /\ [][Next]_vars

(***************************************************************************)
(* Vocabulary of the properties.                                           *)
(***************************************************************************)
Least(S) == CHOOSE x \in S : \A y \in S : x <= y

StringDone == pc = "done" /\ call.fn = "string"
NumberDone == pc = "done" /\ call.fn = "number"
ArrayDone == pc = "done" /\ call.fn = "array"
InExecProb == pc # "idle" /\ call.fn = "execProb"
ExecProbDone == pc = "done" /\ call.fn = "execProb"

\* The number passes the type and allowedNums rules.
PassesAllowedNums ==
    /\ call.num.tag = "number"
    /\ (call.rules.allowedNums = {} \/ call.num.n \in call.rules.allowedNums)

\* The string was not rejected by the type, empty or minChars rule.
PassesUpToMinChars == result.kind \notin {"TypeMismatch", "EmptyValue", "BelowMinimum"}

\* The weight of the first i entries, and of the whole list.
RECURSIVE RunningTotal(_, _)
RunningTotal(arr, i) == IF i = 0 THEN 0 ELSE RunningTotal(arr, i - 1) + arr[i].prob[1]
TotalWeight(arr) == RunningTotal(arr, Len(arr))

LackingEl(arr) == {i \in 1..Len(arr) : arr[i].el = Null}
LackingProb(arr) == {i \in 1..Len(arr) : arr[i].prob = Null}
WellFormed(arr) == LackingEl(arr) = {} /\ LackingProb(arr) = {}

\* The entries whose running total has reached the draw r = n / den.
Reaching(arr, r) == {i \in 1..Len(arr) : RunningTotal(arr, i) * r.den >= r.n}

(***************************************************************************)
(* C1  VerifyThis.number, min rule: with min set (0 included) and the      *)
(* value allowed by allowedNums, value < min fails as BelowMinimum, a      *)
(* RangeError whose message starts from alias; value >= min is not         *)
(* rejected by the min rule.                                               *)
(***************************************************************************)
C1_BelowMinimum ==
    NumberDone /\ PassesAllowedNums /\ call.rules.min # Null =>
      /\ call.num.n < call.rules.min[1] =>
           /\ result.status = "throw"
           /\ result.kind = "BelowMinimum"
           /\ result.error = "RangeError"
           /\ result.subject = call.rules.alias
      /\ call.num.n >= call.rules.min[1] => result.kind # "BelowMinimum"

(***************************************************************************)
(* C2  VerifyThis.number, maxValue rule: a number that passes the          *)
(* allowedNums and min rules and exceeds a set maxValue (0 and negative    *)
(* numbers included) fails as AboveMaximum.                                *)
(***************************************************************************)
C2_AboveMaximum ==
    /\ NumberDone /\ PassesAllowedNums
    /\ (call.rules.min = Null \/ call.num.n >= call.rules.min[1])
    /\ call.rules.maxValue # Null
    /\ call.num.n > call.rules.maxValue[1]
    => result.status = "throw" /\ result.kind = "AboveMaximum"

(***************************************************************************)
(* C3  VerifyThis.string, maxChars rule: for every set maxChars, a string  *)
(* not rejected by an earlier rule fails as AboveMaximum when it is longer *)
(* than maxChars, and is not rejected by the rule when its length equals   *)
(* maxChars.                                                               *)
(***************************************************************************)
C3_MaxChars ==
    StringDone /\ PassesUpToMinChars /\ call.rules.maxChars # Null =>
      /\ Len(call.str.chars) > call.rules.maxChars[1] =>
           result.status = "throw" /\ result.kind = "AboveMaximum"
      /\ Len(call.str.chars) = call.rules.maxChars[1] => result.kind # "AboveMaximum"

(***************************************************************************)
(* C4  VerifyThis.string, empty rule: for every textual value (primitive   *)
(* string or String object), canEmpty false and length 0 fails as          *)
(* EmptyValue; with canEmpty true the empty rule rejects nothing.          *)
(***************************************************************************)
C4_EmptyValue ==
    StringDone /\ call.str.tag \in {"prim", "obj"} =>
      /\ ~call.rules.canEmpty /\ Len(call.str.chars) = 0 =>
           result.status = "throw" /\ result.kind = "EmptyValue"
      /\ call.rules.canEmpty => result.kind # "EmptyValue"

(***************************************************************************)
(* C5  VerifyThis.string, allow-list rule: a string that passes the type,  *)
(* empty, minChars and maxChars rules fails as NotAllowed exactly when     *)
(* maxChars is 1 and the string is not one of allowedChars.                *)
(***************************************************************************)
C5_NotAllowed ==
    StringDone /\ PassesUpToMinChars /\ result.kind # "AboveMaximum" =>
      (result.kind = "NotAllowed"
         <=> /\ call.rules.maxChars = Some(1)
             /\ call.str.chars \notin call.rules.allowedChars)

\* The same for primitive strings alone, with the outcome otherwise a
\* success: the part of C5 the code delivers.
C5_NotAllowedPrimitive ==
    /\ StringDone /\ call.str.tag = "prim"
    /\ PassesUpToMinChars /\ result.kind # "AboveMaximum"
    => IF call.rules.maxChars = Some(1) /\ call.str.chars \notin call.rules.allowedChars
         THEN result.kind = "NotAllowed"
         ELSE result = Ok

(***************************************************************************)
(* C6  VerifyThis.array, arrayOf rule: an array that passes the type and   *)
(* empty rules and has an element whose typeof is not in a non-empty       *)
(* arrayOf fails as TypeMismatch naming the smallest 0-based index of such *)
(* an element, whatever minElements and maxElements say; if every element  *)
(* is of an allowed type (or arrayOf is empty) the rule rejects nothing.   *)
(***************************************************************************)
BadElements(arr, arrayOf) == {i \in 1..Len(arr.els) : arr.els[i].typeof \notin arrayOf}

PassesArrayEmpty == call.arr.tag = "array" /\ (call.rules.canEmpty \/ Len(call.arr.els) > 0)

C6_ElementType ==
    ArrayDone /\ PassesArrayEmpty =>
      LET bad == BadElements(call.arr, call.rules.arrayOf)
      IN  IF call.rules.arrayOf # {} /\ bad # {}
            THEN /\ result.status = "throw"
                 /\ result.kind = "TypeMismatch"
                 /\ result.n = Some(Least(bad) - 1)
            ELSE result.kind # "TypeMismatch"

\* The element at index 1 is the first of a wrong type, and the array is
\* also shorter than minElements.
C6_Witness ==
    /\ ArrayDone /\ PassesArrayEmpty
    /\ call.rules.arrayOf = {"number"}
    /\ Len(call.arr.els) = 2
    /\ call.arr.els[1].typeof = "number"
    /\ call.arr.els[2].typeof = "string"
    /\ call.rules.minElements = Some(3)
    /\ result.kind = "TypeMismatch" /\ result.n = Some(1)

(***************************************************************************)
(* C7  execProb, missing fields: if some entry lacks el or prob, the call  *)
(* fails as MissingField naming the smallest index of an entry lacking the *)
(* reported field, with the sum not computed and no draw made.             *)
(***************************************************************************)
C7_MissingField ==
    InExecProb /\ pc # "fields" /\ ~WellFormed(call.arr) =>
      /\ pc = "done"
      /\ result.status = "throw" /\ result.kind = "MissingField"
      /\ \/ result.subject = "el" /\ result.n = Some(Least(LackingEl(call.arr)) - 1)
         \/ /\ result.subject = "prob"
            /\ LackingProb(call.arr) # {}
            /\ result.n = Some(Least(LackingProb(call.arr)) - 1)
      /\ checkPercent = Null
      /\ num = Null

\* prob is missing at index 0 and el only at index 1: el at index 1 is named.
C7_Witness ==
    /\ ExecProbDone
    /\ Len(call.arr) = 2
    /\ call.arr[1].prob = Null /\ call.arr[1].el # Null
    /\ call.arr[2].el = Null
    /\ result.kind = "MissingField" /\ result.subject = "el" /\ result.n = Some(1)

(***************************************************************************)
(* C8  execProb, weight sum: with every entry carrying el and prob, the    *)
(* call fails as InvalidConfiguration exactly when the weights sum to more *)
(* than 100, before any draw; a sum of 100 or less never fails.            *)
(***************************************************************************)
C8_InvalidConfiguration ==
    InExecProb /\ WellFormed(call.arr) =>
      /\ TotalWeight(call.arr) <= MaxPercent => result.status # "throw"
      /\ pc \notin {"fields", "sum"} /\ TotalWeight(call.arr) > MaxPercent =>
           /\ pc = "done"
           /\ result.status = "throw" /\ result.kind = "InvalidConfiguration"
           /\ num = Null

\* Two weights of 60, each acceptable alone, were rejected for their sum
\* of 120 with no draw made.
C8_Witness ==
    /\ ExecProbDone /\ WellFormed(call.arr)
    /\ Len(call.arr) = 2
    /\ call.arr[1].prob = Some(60) /\ call.arr[2].prob = Some(60)
    /\ result.kind = "InvalidConfiguration"
    /\ num = Null

(***************************************************************************)
(* C9  execProb, the draw: every value drawn lies in [0, 100), 100 itself  *)
(* is never drawn.                                                         *)
(***************************************************************************)
C9_DrawBelow100 ==
    num # Null => 0 <= num[1].n /\ num[1].n < DrawMax * num[1].den

\* C9 as the code has it: every value drawn is a multiple of 0.1 in the
\* closed range [0, 100]; 100 is among the values drawn.
C9_DrawWithin ==
    num # Null =>
      /\ num[1].den = Pow10(DefaultDecimals)
      /\ DrawMin * num[1].den <= num[1].n
      /\ num[1].n <= DrawMax * num[1].den

\* The draw 100.0 has been made and the walk has run on it.
C9_Witness ==
    /\ ExecProbDone
    /\ num # Null
    /\ num[1].n = DrawMax * num[1].den

(***************************************************************************)
(* C10  execProb, the walk: the item returned is that of the first entry,  *)
(* in list order, whose running total of weights is >= the draw; a draw on *)
(* a bucket boundary goes to the earlier entry (weights 60 and 40: draws   *)
(* in [0, 60] return the first item, draws above 60 the second).           *)
(***************************************************************************)
C10_FirstReaching ==
    ExecProbDone /\ num # Null =>
      LET arr == call.arr
          r == num[1]
      IN  /\ Reaching(arr, r) # {} =>
               result = Return(arr[Least(Reaching(arr, r))].el[1])
          /\ Len(arr) = 2 /\ arr[1].prob = Some(60) /\ arr[2].prob = Some(40) =>
               IF r.n <= 60 * r.den
                 THEN result = Return(arr[1].el[1])
                 ELSE result = Return(arr[2].el[1])

\* The draw 60.0 on the boundary of weights 60 and 40 returned the first
\* item, the two items being different.
C10_Witness ==
    /\ ExecProbDone /\ num # Null
    /\ Len(call.arr) = 2
    /\ call.arr[1] = [el |-> Some("A"), prob |-> Some(60)]
    /\ call.arr[2] = [el |-> Some("B"), prob |-> Some(40)]
    /\ num[1].n = 60 * num[1].den
    /\ result = Return("A")

(***************************************************************************)
(* C11  execProb, no selection: the call ends without an item and without  *)
(* a failure only when the weights sum to less than 100 and the draw is    *)
(* greater than the sum; a list whose weights sum to exactly 100 returns   *)
(* one of its items on every draw (a single entry of weight 100 is always  *)
(* returned).                                                              *)
(***************************************************************************)
NoSelection == result = Return("undefined")

ItemsOf(arr) == {arr[i].el[1] : i \in 1..Len(arr)}

C11_NoSelectionOnlyInGap ==
    ExecProbDone /\ num # Null =>
      LET arr == call.arr
          r == num[1]
      IN  /\ NoSelection =>
               /\ TotalWeight(arr) < MaxPercent
               /\ r.n > TotalWeight(arr) * r.den
          /\ TotalWeight(arr) = MaxPercent =>
               result.status = "return" /\ result.value \in ItemsOf(arr)

\* C11 as the code has it: the empty list too ends without an item, on
\* every draw, the draw 0 included, which is not greater than its sum 0.
C11_NoSelection ==
    ExecProbDone /\ num # Null =>
      LET arr == call.arr
          r == num[1]
      IN  /\ NoSelection =>
               /\ TotalWeight(arr) < MaxPercent
               /\ (Len(arr) = 0 \/ r.n > TotalWeight(arr) * r.den)
          /\ Len(arr) = 0 => NoSelection
          /\ TotalWeight(arr) = MaxPercent =>
               result.status = "return" /\ result.value \in ItemsOf(arr)
          /\ Len(arr) = 1 /\ arr[1].prob = Some(MaxPercent) =>
               result = Return(arr[1].el[1])

\* A single entry of weight 100 was returned on the draw 100.0.
C11_Witness ==
    /\ ExecProbDone /\ num # Null
    /\ Len(call.arr) = 1
    /\ call.arr[1] = [el |-> Some("A"), prob |-> Some(MaxPercent)]
    /\ num[1].n = DrawMax * num[1].den
    /\ result = Return("A")

\* Weights summing to 60 and a draw above 60 ended without an item.
C11_WitnessGap ==
    /\ ExecProbDone /\ num # Null
    /\ Len(call.arr) = 1
    /\ call.arr[1].prob = Some(60)
    /\ num[1].n > 60 * num[1].den
    /\ NoSelection

(***************************************************************************)
(* C12  execProb, zero weight: an entry whose weight is 0 is never the     *)
(* entry returned, wherever it stands in the list and whatever the draw:   *)
(* an item that is returned is the item of an entry of positive weight.    *)
(***************************************************************************)
PositiveItems(arr) == {arr[i].el[1] : i \in {j \in 1..Len(arr) : arr[j].prob[1] > 0}}

C12_ZeroWeightNeverReturned ==
    ExecProbDone /\ num # Null /\ ~NoSelection =>
      result.value \in PositiveItems(call.arr)

\* What the code keeps of C12: a zero-weight entry is returned on no draw
\* above 0, and on the draw 0 only when no entry before it has weight.
C12_ZeroWeightOnlyOnZeroDraw ==
    ExecProbDone /\ num # Null /\ ~NoSelection =>
      \/ result.value \in PositiveItems(call.arr)
      \/ /\ num[1].n = 0
         /\ result.value = call.arr[1].el[1]
         /\ call.arr[1].prob = Some(0)
====
